---- MODULE Spec2Model ----
(***************************************************************************)
(* Barcode localization and decoding pipeline of backend/barcode_scanner.py *)
(* (decode_barcodes_from_bytes and its helpers), as a state machine.  One   *)
(* behaviour is one call of decode_barcodes_from_bytes on one input image;  *)
(* the image is abstracted to what the control flow reads from it: whether  *)
(* PIL can parse it, the contours OpenCV finds in it, what the pyzbar       *)
(* reader answers on each variant image, and which library call (if any)    *)
(* raises.                                                                  *)
(***************************************************************************)
EXTENDS Integers, Sequences, FiniteSets, TLC

(***************************************************************************)
(* Program constants.                                                       *)
(***************************************************************************)
\* cnts[:8]
MaxRois == 8
\* if w < 80 ...
MinWidth == 80
\* ... or h < 30
MinHeight == 30
\* pad = 12
pad == 12

\* variant of Rotations: the unrotated frame comes last
RotationsFromNinety == <<90, 180, 270, 0>>

\* imgs = [gray, ROTATE_90_CLOCKWISE, ROTATE_180, ROTATE_90_COUNTERCLOCKWISE],
\* as clockwise degrees
Rotations == <<0, 90, 180, 270>>
\* variant of Scales: a fifth scale, 0.5, is tried too
ScalesWithHalf == <<5, 10, 15, 20, 30>>

\* for s in [1.0, 1.5, 2.0, 3.0], in tenths
Scales == <<10, 15, 20, 30>>
\* variants = [gg, clahe.apply(gg), adaptiveThreshold(gg)]
Variants == <<"raw", "clahe", "adaptive">>

(***************************************************************************)
(* Bounds of the model.                                                     *)
(***************************************************************************)
\* frame size (gray.shape) of the modelled images
FrameW == 200
FrameH == 120
\* most contours findContours returns in the locator-only specification
MaxContours == 9
\* requests the server has in flight at once
NumRequests == 3
\* items ever added to the pantry
MaxItems == 3
\* days the pantry app is followed for
MaxDays == 9

(***************************************************************************)
(* Text: bytes are "a", "b" (printable), " " and "\n" (whitespace) and      *)
(* "xFF" (a byte that is not valid UTF-8).                                  *)
(***************************************************************************)
Whitespace == {" ", "\n"}

\* bytes.decode("utf-8", errors="ignore"): undecodable bytes are dropped
utf8_ignore(bytes) == SelectSeq(bytes, LAMBDA b : b # "xFF")

RECURSIVE lstrip(_)
lstrip(s) ==
    IF s = <<>> THEN <<>>
    ELSE IF Head(s) \in Whitespace THEN lstrip(Tail(s)) ELSE s

RECURSIVE rstrip(_)
rstrip(s) ==
    IF s = <<>> THEN <<>>
    ELSE IF s[Len(s)] \in Whitespace THEN rstrip(SubSeq(s, 1, Len(s) - 1)) ELSE s

\* variant of strip: the text is not trimmed
StripMissing(s) == s

\* str.strip()
strip(s) == rstrip(lstrip(s))

\* obj.data.decode("utf-8", errors="ignore").strip()
PayloadText(obj) == strip(utf8_ignore(obj.data))

\* variant of KeepsSymbol: the emptiness test is missing
KeepsAnySymbol(s) == TRUE

\* if s:
KeepsSymbol(s) == s # <<>>

\* variant of BarcodeResult: the rectangle is mapped back through a 2x upscale
BarcodeResultRescaled(obj) ==
    [type |-> obj.type, data |-> PayloadText(obj),
     rect |-> [k \in DOMAIN obj.rect |-> obj.rect[k] \div 2]]

\* BarcodeResult(obj.type, s, (x, y, w, h))
BarcodeResult(obj) == [type |-> obj.type, data |-> PayloadText(obj), rect |-> obj.rect]

\* _decode_pyzbar applied to what pyzbar.decode returned
RECURSIVE decode_pyzbar(_)
decode_pyzbar(objs) ==
    IF objs = <<>> THEN <<>>
    ELSE IF KeepsSymbol(PayloadText(Head(objs)))
         THEN <<BarcodeResult(Head(objs))>> \o decode_pyzbar(Tail(objs))
         ELSE decode_pyzbar(Tail(objs))

(***************************************************************************)
(* Region-of-interest locator.  A contour is abstracted to what the code    *)
(* reads of it: cv2.contourArea (area) and cv2.boundingRect (x, y, w, h).   *)
(***************************************************************************)
Max(a, b) == IF a >= b THEN a ELSE b
Min(a, b) == IF a <= b THEN a ELSE b

\* key=cv2.contourArea
contourArea(c) == c.area

\* reverse=True: c goes before d when its key is strictly greater
SortsBefore(c, d) == contourArea(c) > contourArea(d)

\* insert c into the sorted sequence s, after every element not smaller (stable)
RECURSIVE InsertByArea(_, _)
InsertByArea(c, s) ==
    IF s = <<>> THEN <<c>>
    ELSE IF SortsBefore(c, Head(s)) THEN <<c>> \o s
    ELSE <<Head(s)>> \o InsertByArea(c, Tail(s))

\* cnts = sorted(cnts, key=cv2.contourArea, reverse=True)
RECURSIVE sorted(_)
sorted(cs) ==
    IF cs = <<>> THEN <<>>
    ELSE InsertByArea(cs[Len(cs)], sorted(SubSeq(cs, 1, Len(cs) - 1)))

\* variant of TopContours: the cut to the 8 largest is missing
TopContoursUncut(cs) == cs

\* cnts[:8]
TopContours(cs) == SubSeq(cs, 1, Min(MaxRois, Len(cs)))

\* variant of SkipsContour: "and" in place of "or"
SkipsContourBoth(c) == c.w < MinWidth /\ c.h < MinHeight

\* if w < 80 or h < 30: continue
SkipsContour(c) == c.w < MinWidth \/ c.h < MinHeight

\* variant of PaddedRect: padded, not clamped
PaddedRectUnclamped(c) ==
    << c.x - pad, c.y - pad, c.x + c.w + pad, c.y + c.h + pad >>

\* (x0, y0, x1, y1): the bounding rectangle padded and clamped to a frame of
\* W by H
PaddedRectIn(c, W, H) ==
    << Max(0, c.x - pad), Max(0, c.y - pad),
       Min(W, c.x + c.w + pad), Min(H, c.y + c.h + pad) >>

\* (x0, y0, x1, y1) on the frame of the modelled size
PaddedRect(c) == PaddedRectIn(c, FrameW, FrameH)

\* the loop "for c in cnts[:8]" from index i on; each appended roi is kept with
\* the index (src) of the sorted contour it was made from
RECURSIVE RoiLoop(_, _)
RoiLoop(top, i) ==
    IF i > Len(top) THEN <<>>
    ELSE IF SkipsContour(top[i]) THEN RoiLoop(top, i + 1)
    ELSE <<[rect |-> PaddedRect(top[i]), src |-> i]>> \o RoiLoop(top, i + 1)

\* _find_barcode_like_rois, given the contours findContours returned
find_barcode_like_rois(cs) ==
    LET found == RoiLoop(TopContours(sorted(cs)), 1)
    IN  [k \in 1..Len(found) |-> found[k].rect]

\* for each returned roi, the index in sorted(cs) of its contour
RoiSources(cs) ==
    LET found == RoiLoop(TopContours(sorted(cs)), 1)
    IN  [k \in 1..Len(found) |-> found[k].src]

\* _find_barcode_like_rois on a frame of W by H
find_barcode_like_rois_in(cs, W, H) ==
    LET top == TopContours(sorted(cs))
        src == RoiSources(cs)
    IN  [k \in DOMAIN src |-> PaddedRectIn(top[src[k]], W, H)]

(***************************************************************************)
(* The variant sweep of _try_decode_with_rotations: positions <<r, s, c>>   *)
(* index Rotations, Scales and Variants.                                    *)
(***************************************************************************)
\* variant of NextVariant: the scale loop outside the rotation loop
NextVariantScaleOuter(r, s, c) ==
    IF c < Len(Variants) THEN <<r, s, c + 1>>
    ELSE IF r < Len(Rotations) THEN <<r + 1, s, 1>>
    ELSE IF s < Len(Scales) THEN <<1, s + 1, 1>>
    ELSE <<>>

\* the position after <<r, s, c>> in "for g in imgs: for s in [...]: for v in
\* variants", or <<>> when the loops are exhausted
NextVariant(r, s, c) ==
    IF c < Len(Variants) THEN <<r, s, c + 1>>
    ELSE IF s < Len(Scales) THEN <<r, s + 1, 1>>
    ELSE IF r < Len(Rotations) THEN <<r + 1, 1, 1>>
    ELSE <<>>

\* variants of the three early returns: the return is missing
EngineNeverReturns(res) == FALSE
FullFrameNeverReturns(res) == FALSE
RoiNeverReturns(res) == FALSE

\* if res: return res            (in _try_decode_with_rotations)
EngineReturns(res) == res # <<>>

\* if res: return res            (after the full-frame attempt)
FullFrameReturns(res) == res # <<>>

\* if res: return res            (after a region attempt)
RoiReturns(res) == res # <<>>

(***************************************************************************)
(* Inputs of one call.  A reader position is <<frame, r, s, c>>: frame 0 is *)
(* the full frame, frame k >= 1 the crop of the k-th returned region.       *)
(***************************************************************************)
Contour(a, x0, y0, w0, h0) == [area |-> a, x |-> x0, y |-> y0, w |-> w0, h |-> h0]

\* shapes of contours: wide and high enough, too narrow, too short, exactly at
\* the limits and touching the frame's corner, reaching the frame's far edges
Wide    == Contour(4000, 20, 20, 100, 40)
Narrow  == Contour(6000, 30, 10, 79, 90)
Short   == Contour(3000, 5, 60, 150, 29)
Exact   == Contour(2400, 0, 0, 80, 30)
FarEdge == Contour(5000, 110, 80, 90, 40)
Shapes  == <<Wide, Narrow, Short, Exact, FarEdge>>

\* the i-th contour of a generated input: shape by pattern p, area by order o
\* (1: already descending, 2: ascending, 3: pairwise ties)
GenContour(i, p, o) ==
    LET sh == Shapes[((i * p) % Len(Shapes)) + 1]
        a  == CASE o = 1 -> 900 - 10 * i
                [] o = 2 -> 700 + 10 * i
                [] OTHER -> 800 + 10 * (i \div 2)
    IN  [sh EXCEPT !.area = a]

GenContours(n, p, o) == [i \in 1..n |-> GenContour(i, p, o)]

\* contour lists of the pipeline specification: none, one region, skipped
\* contours among kept ones, and more contours than regions are kept
PipelineContours ==
    { <<>>, <<Wide>>, <<Narrow, Short>>, <<Exact, Narrow, FarEdge>>,
      GenContours(5, 1, 1), GenContours(MaxContours, 5, 2) }

\* contour lists of the locator specification
LocatorContours ==
    { GenContours(n, p, o) : n \in 0..MaxContours, p \in 1..5, o \in 1..3 }

Sym(t, bytes, rc) == [type |-> t, data |-> bytes, rect |-> rc]

\* answers of pyzbar.decode holding at least one symbol with visible text
RawHits ==
    << <<Sym("EAN13", <<"a", "b">>, <<3, 4, 50, 20>>)>>,
       <<Sym("QRCODE", <<" ">>, <<0, 0, 9, 9>>),
         Sym("CODE128", <<" ", "a", " ", "b", "\n">>, <<7, 1, 60, 12>>)>>,
       <<Sym("EAN13", <<"xFF", "b", " ">>, <<1, 2, 30, 10>>),
         Sym("EAN13", <<"a">>, <<5, 5, 30, 10>>)>> >>

\* answers of pyzbar.decode whose symbols all have blank text
RawBlanks ==
    << <<Sym("QRCODE", <<>>, <<2, 2, 8, 8>>)>>,
       <<Sym("QRCODE", <<" ", "\n">>, <<2, 2, 8, 8>>),
         Sym("CODE128", <<"xFF", " ">>, <<4, 4, 8, 8>>)>> >>

HitChoices ==
    { {}, {<<0, 1, 1, 1>>}, {<<0, 2, 3, 2>>, <<1, 1, 1, 1>>}, {<<0, 4, 4, 3>>},
      {<<1, 1, 1, 2>>}, {<<1, 3, 2, 3>>, <<2, 1, 1, 1>>}, {<<2, 4, 4, 3>>},
      {<<MaxRois, 4, 4, 3>>} }

BlankChoices ==
    { {}, {<<0, 1, 1, 1>>, <<1, 1, 1, 1>>}, {<<0, 4, 4, 3>>, <<2, 4, 4, 3>>} }

\* the library call that raises, if any: the rotations of a frame, the
\* resize/CLAHE/threshold of one (rotation, scale), one reader call, one crop
FaultChoices ==
    { <<"none">>, <<"rotate", 0>>, <<"scale", 0, 1, 4>>, <<"read", 0, 1, 1, 2>>,
      <<"crop", 1>>, <<"rotate", 2>>, <<"scale", 1, 3, 2>>, <<"read", 1, 4, 4, 3>> }

ParseChoices == {"ok", "unidentified", "truncated"}

VARIABLES
    parse,        \* whether PIL parses the bytes
    cnts,         \* the contours cv2.findContours returns on the frame
    hitAt,        \* reader positions where pyzbar returns visible text
    blankAt,      \* reader positions where pyzbar returns blank symbols only
    faultAt,      \* the library call that raises
    pc,           \* position in decode_barcodes_from_bytes
    frame,        \* 0: full frame, k: the k-th region
    r, s, c,      \* loop indices of _try_decode_with_rotations
    roi,          \* the region last cropped
    cropped,      \* history: the regions cropped so far, in order
    engineOut,    \* history: what each finished _try_decode_with_rotations returned
    opens,        \* history: calls of Image.open
    rois,         \* what _find_barcode_like_rois returned
    roiSrc,       \* history: the sorted-contour index of each roi
    locatorRuns,  \* history: calls of _find_barcode_like_rois
    calls,        \* history: reader calls per frame
    lastRead,     \* history: <<frame, rotation, scale, variant>> last read
    hits,         \* history: reader calls whose filtered result was non-empty
    result,       \* the returned list
    err,          \* the exception that left the call
    heap,         \* the live pixel buffers: buffer -> what its pixels hold
    ref,          \* the buffer each name of the call is bound to (0: none)
    thr,          \* two concurrent calls (specification SpecCalls)
    srv,          \* the HTTP server (specification SpecServer)
    rot,          \* a frame and its rotation (specification SpecRot)
    fridge        \* the pantry app (specification SpecPantry)

inputs == <<parse, cnts, hitAt, blankAt, faultAt>>
hist == <<cropped, engineOut, opens>>
mem == <<heap, ref>>
outside == <<thr, srv, rot, fridge>>
vars == <<parse, cnts, hitAt, blankAt, faultAt, pc, frame, r, s, c, roi, rois,
          roiSrc, locatorRuns, calls, lastRead, hits, result, err, cropped,
          engineOut, opens, heap, ref, thr, srv, rot, fridge>>

(***************************************************************************)
(* Pixel buffers.  A buffer's content is written as the expression that     *)
(* made it, from <<"frame">>, the decoded upright RGB pixels.  Names bound  *)
(* to the same buffer share its pixels; a buffer no name is bound to is     *)
(* freed.                                                                   *)
(***************************************************************************)
Range(sq) == {sq[i] : i \in 1..Len(sq)}

\* the lowest buffer not in use
FreshId(used) ==
    CHOOSE i \in 1..(Cardinality(used) + 1) :
        i \notin used /\ \A j \in 1..(i - 1) : j \in used

NoRefs == [bgr |-> 0, gray_full |-> 0, gray |-> 0, imgs |-> <<>>, gg |-> 0,
           variants |-> <<>>]

Live(rf) ==
    ({rf.bgr, rf.gray_full, rf.gray, rf.gg} \cup Range(rf.imgs) \cup Range(rf.variants))
        \ {0}

\* h with the buffers rf no longer names freed
Collect(h, rf) == [i \in Live(rf) \cap DOMAIN h |-> h[i]]

\* the locals of _try_decode_with_rotations go when it returns
EngineLeft(rf) == [rf EXCEPT !.imgs = <<>>, !.gg = 0, !.variants = <<>>]

\* cv2.cvtColor(.., COLOR_RGB2BGR) of np.array(pil)
BgrPixels == <<"bgr", <<"frame">>>>
\* cv2.cvtColor(.., COLOR_BGR2GRAY)
GrayOf(px) == <<"gray", px>>
\* bgr[y0:y1, x0:x1]
CropOf(rect, px) == <<"crop", rect, px>>
\* cv2.rotate(gray, ..)
RotatedBy(deg, px) == <<"rotate", deg, px>>
\* cv2.resize(g, None, fx=s, fy=s, interpolation=cv2.INTER_CUBIC)
ResizedBy(sc, px) == <<"resize", sc, px>>
\* clahe.apply(gg)
Equalized(px) == <<"clahe", px>>
\* cv2.adaptiveThreshold(gg, 255, ADAPTIVE_THRESH_GAUSSIAN_C, THRESH_BINARY, 31, 2)
Thresholded(px) == <<"adaptive", px>>

\* variant of ThresholdDst: the threshold is written into its source (dst=gg)
ThresholdInPlace(src, fresh) == src

\* the buffer cv2.adaptiveThreshold writes: no dst is passed, a new array
ThresholdDst(src, fresh) == fresh

\* the buffer gg is bound to: "... if s != 1.0 else g"
ResizeDst(si, src, fresh) == IF Scales[si] # 10 THEN fresh ELSE src

\* pyzbar.pyzbar.decode on the variant image at a position, for an image
\* that is read at the positions hs and read blank at the positions bs
pyzbar_answer(hs, bs, f, ri, si, ci) ==
    LET k == f + ri + si + ci
    IN  IF <<f, ri, si, ci>> \in hs THEN RawHits[(k % Len(RawHits)) + 1]
        ELSE IF <<f, ri, si, ci>> \in bs THEN RawBlanks[(k % Len(RawBlanks)) + 1]
        ELSE <<>>

\* pyzbar.pyzbar.decode on the variant image at a position of the call's image
pyzbar_decode(f, ri, si, ci) == pyzbar_answer(hitAt, blankAt, f, ri, si, ci)

Start ==
    /\ pc = "start" /\ frame = 0 /\ r = 1 /\ s = 1 /\ c = 1
    /\ roi = <<>> /\ rois = <<>> /\ roiSrc = <<>> /\ locatorRuns = 0
    /\ calls = [f \in 0..MaxRois |-> 0]
    /\ lastRead = <<>> /\ hits = 0 /\ result = <<>> /\ err = "none"
    /\ cropped = <<>> /\ engineOut = <<>> /\ opens = 0
    /\ heap = <<>> /\ ref = NoRefs

\* nothing but the one call of the pipeline is modelled
Alone == thr = <<>> /\ srv = <<>> /\ rot = <<>> /\ fridge = <<>>

Init ==
    /\ parse \in ParseChoices
    /\ cnts \in PipelineContours
    /\ hitAt \in HitChoices
    /\ blankAt \in BlankChoices
    /\ faultAt \in FaultChoices
    /\ Start
    /\ Alone

\* an exception leaves decode_barcodes_from_bytes
Raise(e) ==
    /\ pc' = "raised" /\ err' = e
    /\ UNCHANGED <<inputs, frame, r, s, c, roi, rois, roiSrc, locatorRuns, calls,
                   lastRead, hits, result, mem>>

\* variant of ParseFails: only unidentifiable bytes raise, truncated data is
\* decoded as far as it goes
ParseFailsOnOpenOnly == parse = "unidentified"

\* pil = Image.open(io.BytesIO(image_bytes)) raises on bytes it cannot
\* identify; exif_transpose(pil).convert("RGB") raises on truncated data
ParseFails == parse # "ok"

\* Image.open / exif_transpose / convert / cvtColor, then the full-frame attempt
Normalize ==
    /\ pc = "start"
    /\ opens' = opens + 1
    /\ UNCHANGED <<cropped, engineOut, outside>>
    /\ IF ParseFails
       THEN Raise("DecodeError")
       ELSE /\ pc' = "rotate" /\ frame' = 0
            /\ heap' = (1 :> BgrPixels) @@ (2 :> GrayOf(BgrPixels))
            /\ ref' = [NoRefs EXCEPT !.bgr = 1, !.gray_full = 2, !.gray = 2]
            /\ UNCHANGED <<inputs, r, s, c, roi, rois, roiSrc, locatorRuns, calls,
                           lastRead, hits, result, err>>

\* imgs = [gray, rotate 90, rotate 180, rotate 270]
Rotate ==
    /\ pc = "rotate"
    /\ UNCHANGED <<hist, outside>>
    /\ IF faultAt = <<"rotate", frame>>
       THEN Raise("TransformError")
       ELSE /\ pc' = "scale" /\ r' = 1 /\ s' = 1
            /\ LET b2 == FreshId(DOMAIN heap)
                   b3 == FreshId(DOMAIN heap \cup {b2})
                   b4 == FreshId(DOMAIN heap \cup {b2, b3})
                   px == heap[ref.gray]
               IN  /\ ref' = [ref EXCEPT !.imgs = <<ref.gray, b2, b3, b4>>]
                   /\ heap' = (b2 :> RotatedBy(Rotations[2], px))
                               @@ (b3 :> RotatedBy(Rotations[3], px))
                               @@ (b4 :> RotatedBy(Rotations[4], px)) @@ heap
            /\ UNCHANGED <<inputs, frame, c, roi, rois, roiSrc, locatorRuns, calls,
                           lastRead, hits, result, err>>

\* gg = resize(g); variants = [gg, clahe.apply(gg), adaptiveThreshold(gg)]
Scale ==
    /\ pc = "scale"
    /\ UNCHANGED <<hist, outside>>
    /\ IF faultAt = <<"scale", frame, r, s>>
       THEN Raise("TransformError")
       ELSE /\ pc' = "read" /\ c' = 1
            /\ LET src  == ref.imgs[r]
                   kept == Collect(heap, [ref EXCEPT !.gg = 0, !.variants = <<>>])
                   gg   == ResizeDst(s, src, FreshId(DOMAIN kept))
                   h1   == IF gg = src THEN kept
                           ELSE (gg :> ResizedBy(Scales[s], kept[src])) @@ kept
                   eq   == FreshId(DOMAIN h1)
                   h2   == (eq :> Equalized(h1[gg])) @@ h1
                   th   == ThresholdDst(gg, FreshId(DOMAIN h2))
                   h3   == (th :> Thresholded(h2[gg])) @@ h2
               IN  /\ ref' = [ref EXCEPT !.gg = gg, !.variants = <<gg, eq, th>>]
                   /\ heap' = h3
            /\ UNCHANGED <<inputs, frame, r, s, roi, rois, roiSrc, locatorRuns, calls,
                           lastRead, hits, result, err>>

\* variant of Return: only the first symbol is returned
ReturnFirstOnly(res) ==
    /\ pc' = "done" /\ result' = IF res = <<>> THEN <<>> ELSE <<res[1]>>
    /\ UNCHANGED <<frame, r, s, c>>

\* return res / return []
Return(res) ==
    /\ pc' = "done" /\ result' = res
    /\ UNCHANGED <<frame, r, s, c>>

\* what decode_barcodes_from_bytes does with the value e that
\* _try_decode_with_rotations returned for the current frame
AfterEngine(e) ==
    /\ engineOut' = Append(engineOut, e)
    /\ ref' = EngineLeft(ref)
    /\ heap' = Collect(heap, EngineLeft(ref))
    /\ IF frame = 0
       THEN IF FullFrameReturns(e) THEN Return(e)
            ELSE /\ pc' = "locate" /\ UNCHANGED <<frame, r, s, c, result>>
       ELSE IF RoiReturns(e) THEN Return(e)
            ELSE IF frame < Len(rois)
                 THEN /\ pc' = "crop" /\ frame' = frame + 1
                      /\ UNCHANGED <<r, s, c, result>>
                 ELSE Return(<<>>)

\* res = _decode_pyzbar(v); if res: return res -- and the loop's advance
Read ==
    /\ pc = "read"
    /\ UNCHANGED <<cropped, opens, outside>>
    /\ IF faultAt = <<"read", frame, r, s, c>>
       THEN /\ pc' = "raised" /\ err' = "TransformError"
            /\ UNCHANGED engineOut
            /\ calls' = [calls EXCEPT ![frame] = @ + 1]
            /\ lastRead' = <<frame, Rotations[r], Scales[s], Variants[c]>>
            /\ UNCHANGED <<inputs, frame, r, s, c, roi, rois, roiSrc, locatorRuns,
                           hits, result, mem>>
       ELSE LET res == decode_pyzbar(pyzbar_decode(frame, r, s, c))
                nxt == NextVariant(r, s, c)
            IN  /\ calls' = [calls EXCEPT ![frame] = @ + 1]
                /\ lastRead' = <<frame, Rotations[r], Scales[s], Variants[c]>>
                /\ hits' = IF res # <<>> THEN hits + 1 ELSE hits
                /\ IF EngineReturns(res) THEN AfterEngine(res)
                   ELSE IF nxt = <<>> THEN AfterEngine(<<>>)
                   ELSE /\ r' = nxt[1] /\ s' = nxt[2] /\ c' = nxt[3]
                        /\ pc' = IF nxt[3] = 1 THEN "scale" ELSE "read"
                        /\ UNCHANGED <<frame, result, engineOut, mem>>
                /\ UNCHANGED <<inputs, roi, rois, roiSrc, locatorRuns, err>>

\* rois = _find_barcode_like_rois(bgr), and entering "for ... in rois"
Locate ==
    /\ pc = "locate"
    /\ rois' = find_barcode_like_rois(cnts)
    /\ roiSrc' = RoiSources(cnts)
    /\ locatorRuns' = locatorRuns + 1
    /\ IF rois' = <<>>
       THEN /\ pc' = "done" /\ result' = <<>> /\ UNCHANGED frame
       ELSE /\ pc' = "crop" /\ frame' = 1 /\ UNCHANGED result
    /\ UNCHANGED <<inputs, r, s, c, roi, calls, lastRead, hits, err, hist, mem,
                   outside>>

\* roi = bgr[y0:y1, x0:x1]; gray = cvtColor(roi)
Crop ==
    /\ pc = "crop"
    /\ UNCHANGED <<engineOut, opens, outside>>
    /\ IF faultAt = <<"crop", frame>>
       THEN Raise("TransformError") /\ UNCHANGED cropped
       ELSE /\ pc' = "rotate" /\ roi' = rois[frame]
            /\ LET kept == Collect(heap, [ref EXCEPT !.gray = 0])
                   g    == FreshId(DOMAIN kept)
               IN  /\ ref' = [ref EXCEPT !.gray = g]
                   /\ heap' = (g :> GrayOf(CropOf(rois[frame], kept[ref.bgr]))) @@ kept
            /\ cropped' = Append(cropped, rois[frame])
            /\ UNCHANGED <<inputs, frame, r, s, c, rois, roiSrc, locatorRuns, calls,
                           lastRead, hits, result, err>>

Next == Normalize \/ Rotate \/ Scale \/ Read \/ Locate \/ Crop

Spec == Init /\ [][Next]_vars

(***************************************************************************)
(* The locator alone: the call has found nothing on the full frame and is   *)
(* about to run _find_barcode_like_rois on contours drawn from              *)
(* LocatorContours.                                                         *)
(***************************************************************************)
InitRoi ==
    /\ parse = "ok"
    /\ cnts \in LocatorContours
    /\ hitAt = {} /\ blankAt = {} /\ faultAt = <<"none">>
    /\ pc = "locate" /\ frame = 0
    /\ r = Len(Rotations) /\ s = Len(Scales) /\ c = Len(Variants)
    /\ roi = <<>> /\ rois = <<>> /\ roiSrc = <<>> /\ locatorRuns = 0
    /\ calls = [f \in 0..MaxRois |->
                  IF f = 0 THEN Len(Rotations) * Len(Scales) * Len(Variants) ELSE 0]
    /\ lastRead = <<0, Rotations[r], Scales[s], Variants[c]>>
    /\ hits = 0 /\ result = <<>> /\ err = "none"
    /\ cropped = <<>> /\ engineOut = << <<>> >> /\ opens = 1
    /\ heap = (1 :> BgrPixels) @@ (2 :> GrayOf(BgrPixels))
    /\ ref = [NoRefs EXCEPT !.bgr = 1, !.gray_full = 2, !.gray = 2]
    /\ Alone

NextRoi == Locate

SpecRoi == InitRoi /\ [][NextRoi]_vars

(***************************************************************************)
(* Two calls of decode_barcodes_from_bytes running at once (two threads),   *)
(* each on its own image and with its own locals.  A step of a call is its  *)
(* normalisation, one rotation of _try_decode_with_rotations (the first     *)
(* with the crop and the rotations before it), or the locator.              *)
(***************************************************************************)
\* An image is a scene (its contours, and the positions at which the reader
\* reads it) turned clockwise by q quarter turns; the reader sees in the
\* turned image what it sees in the scene.
Image(p, cs, hs, bs, fa) ==
    [parse |-> p, cnts |-> cs, hitAt |-> hs, blankAt |-> bs, faultAt |-> fa,
     W |-> FrameW, H |-> FrameH, q |-> 0, scene |-> cs]

\* the bounding rectangle of contour ct after one quarter turn clockwise of a
\* frame H high
TurnContour(ct, H) == Contour(ct.area, H - ct.y - ct.h, ct.x, ct.h, ct.w)

\* cv2.rotate: contour ct of a W by H frame after n quarter turns clockwise
RECURSIVE TurnedContour(_, _, _, _)
TurnedContour(ct, W, H, n) ==
    IF n = 0 THEN ct ELSE TurnedContour(TurnContour(ct, H), H, W, n - 1)

\* the scene of image im (not turned itself) turned by n quarter turns
Turned(im, n) ==
    [im EXCEPT !.cnts = [k \in DOMAIN im.cnts |-> TurnedContour(im.cnts[k], im.W, im.H, n)],
               !.W = IF n % 2 = 1 THEN im.H ELSE im.W,
               !.H = IF n % 2 = 1 THEN im.W ELSE im.H,
               !.q = n]

\* the frame of the scene that frame f of image im shows (-1: none)
SceneFrame(im, f) ==
    IF im.q = 0 \/ f = 0 THEN f
    ELSE LET mine   == RoiSources(im.cnts)
             theirs == RoiSources(im.scene)
         IN  IF f \in DOMAIN mine /\ \E k \in DOMAIN theirs : theirs[k] = mine[f]
             THEN CHOOSE k \in DOMAIN theirs : theirs[k] = mine[f]
             ELSE 0 - 1

\* pyzbar.pyzbar.decode on the variant image at a position of image im:
\* rotation ri of the image is rotation ri + q of the scene
ReadImage(im, f, ri, si, ci) ==
    IF SceneFrame(im, f) < 0 THEN <<>>
    ELSE pyzbar_answer(im.hitAt, im.blankAt, SceneFrame(im, f),
                       ((ri - 1 + im.q) % Len(Rotations)) + 1, si, ci)

CallImages ==
    { Image("unidentified", <<>>, {}, {}, <<"none">>),
      Image("ok", <<>>, {<<0, 2, 3, 2>>}, {<<0, 1, 1, 1>>}, <<"none">>),
      Image("ok", <<Exact, Narrow, FarEdge>>, {<<1, 3, 2, 3>>, <<2, 1, 1, 1>>}, {},
            <<"none">>),
      Image("ok", <<Exact, Narrow, FarEdge>>, {}, {<<2, 4, 4, 3>>}, <<"none">>),
      Image("ok", <<Wide>>, {<<2, 1, 1, 1>>}, {}, <<"none">>),
      Image("ok", <<Wide>>, {<<1, 1, 1, 2>>}, {}, <<"scale", 1, 3, 2>>),
      Image("ok", <<Wide, FarEdge>>, {<<2, 1, 1, 1>>}, {}, <<"read", 1, 4, 4, 3>>) }

Callers == {1, 2}

\* the loops of _try_decode_with_rotations on frame f of image im from
\* position <<ri, si, ci>> to the end of rotation ri, after the reader calls
\* in reads: "turn" when the loops go on to the next rotation
RECURSIVE SweepFrom(_, _, _, _, _, _)
SweepFrom(im, f, ri, si, ci, reads) ==
    IF ci = 1 /\ im.faultAt = <<"scale", f, ri, si>>
    THEN [end |-> "raised", res |-> <<>>, reads |-> reads]
    ELSE IF im.faultAt = <<"read", f, ri, si, ci>>
    THEN [end |-> "raised", res |-> <<>>, reads |-> Append(reads, <<f, ri, si, ci>>)]
    ELSE LET res == decode_pyzbar(ReadImage(im, f, ri, si, ci))
             nxt == NextVariant(ri, si, ci)
             now == Append(reads, <<f, ri, si, ci>>)
         IN  IF EngineReturns(res) THEN [end |-> "returned", res |-> res, reads |-> now]
             ELSE IF nxt = <<>> THEN [end |-> "returned", res |-> <<>>, reads |-> now]
             ELSE IF nxt[1] # ri THEN [end |-> "turn", res |-> <<>>, reads |-> now]
             ELSE SweepFrom(im, f, ri, nxt[2], nxt[3], now)

\* one rotation of _try_decode_with_rotations on frame f of image im; the
\* rotated images are all made before the first one is read
SweepRotation(im, f, ri) ==
    IF ri = 1 /\ im.faultAt = <<"rotate", f>>
    THEN [end |-> "raised", res |-> <<>>, reads |-> <<>>]
    ELSE SweepFrom(im, f, ri, 1, 1, <<>>)

\* the locals of a call at its entry
CallStart ==
    [pc |-> "start", frame |-> 0, r |-> 1, rois |-> <<>>, result |-> <<>>,
     err |-> "none", reads |-> <<>>]

pipe == <<parse, cnts, hitAt, blankAt, faultAt, pc, frame, r, s, c, roi, rois,
          roiSrc, locatorRuns, calls, lastRead, hits, result, err, cropped,
          engineOut, opens, heap, ref>>

\* no call of the single-call specification is under way
PipeIdle ==
    /\ parse = "ok" /\ cnts = <<>> /\ hitAt = {} /\ blankAt = {}
    /\ faultAt = <<"none">>
    /\ Start

InitCalls ==
    /\ thr \in [img : [Callers -> CallImages], loc : {[i \in Callers |-> CallStart]}]
    /\ srv = <<>> /\ rot = <<>> /\ fridge = <<>>
    /\ PipeIdle

\* variant of SetLocals: the locals are module globals, one set for all calls
SetLocalsGlobal(i, l) ==
    /\ thr' = [thr EXCEPT !.loc = [j \in Callers |-> l]]
    /\ UNCHANGED <<pipe, srv, rot, fridge>>

\* caller i's locals become l
SetLocals(i, l) ==
    /\ thr' = [thr EXCEPT !.loc[i] = l]
    /\ UNCHANGED <<pipe, srv, rot, fridge>>

\* lines 83-89 in caller i
CallNormalize(i) ==
    LET l == thr.loc[i]
    IN  /\ l.pc = "start"
        /\ IF thr.img[i].parse # "ok"
           THEN SetLocals(i, [l EXCEPT !.pc = "raised", !.err = "DecodeError"])
           ELSE SetLocals(i, [l EXCEPT !.pc = "sweep"])

\* one rotation of the engine on the full frame (lines 90-92) or on a region
\* (lines 97-101) in caller i
CallSweep(i) ==
    LET l  == thr.loc[i]
        im == thr.img[i]
        e  == SweepRotation(im, l.frame, l.r)
        l1 == [l EXCEPT !.reads = l.reads \o e.reads, !.r = 1]
    IN  /\ l.pc = "sweep"
        /\ IF l.frame >= 1 /\ l.r = 1 /\ im.faultAt = <<"crop", l.frame>>
           THEN SetLocals(i, [l EXCEPT !.pc = "raised", !.err = "TransformError"])
           ELSE IF e.end = "raised"
           THEN SetLocals(i, [l1 EXCEPT !.pc = "raised", !.err = "TransformError"])
           ELSE IF e.end = "turn"
           THEN SetLocals(i, [l1 EXCEPT !.r = l.r + 1])
           ELSE IF l.frame = 0
           THEN IF FullFrameReturns(e.res)
                THEN SetLocals(i, [l1 EXCEPT !.pc = "done", !.result = e.res])
                ELSE SetLocals(i, [l1 EXCEPT !.pc = "locate"])
           ELSE IF RoiReturns(e.res)
                THEN SetLocals(i, [l1 EXCEPT !.pc = "done", !.result = e.res])
                ELSE IF l.frame < Len(l.rois)
                     THEN SetLocals(i, [l1 EXCEPT !.frame = l.frame + 1])
                     ELSE SetLocals(i, [l1 EXCEPT !.pc = "done", !.result = <<>>])

\* variant of CallLocate: the list of regions is one object shared by all
\* calls and appended to (rois=[] as a default argument)
CallLocateShared(i) ==
    LET l     == thr.loc[i]
        other == CHOOSE j \in Callers : j # i
        found == thr.loc[other].rois
                   \o find_barcode_like_rois_in(thr.img[i].cnts, thr.img[i].W, thr.img[i].H)
    IN  /\ l.pc = "locate"
        /\ IF found = <<>>
           THEN SetLocals(i, [l EXCEPT !.pc = "done", !.rois = found])
           ELSE SetLocals(i, [l EXCEPT !.pc = "sweep", !.frame = 1, !.rois = found])

\* lines 95-96 in caller i: rois is a list made by this call
CallLocate(i) ==
    LET l     == thr.loc[i]
        found == find_barcode_like_rois_in(thr.img[i].cnts, thr.img[i].W, thr.img[i].H)
    IN  /\ l.pc = "locate"
        /\ IF found = <<>>
           THEN SetLocals(i, [l EXCEPT !.pc = "done", !.rois = found])
           ELSE SetLocals(i, [l EXCEPT !.pc = "sweep", !.frame = 1, !.rois = found])

NextCalls == \E i \in Callers : CallNormalize(i) \/ CallSweep(i) \/ CallLocate(i)

SpecCalls == InitCalls /\ [][NextCalls]_vars

(***************************************************************************)
(* A scene and the same scene turned: caller 1 decodes the image of the     *)
(* scene, caller 2 the image turned clockwise by rot.q quarter turns.       *)
(***************************************************************************)
\* a region that passes the size filter whichever way up
Square == Contour(7000, 50, 10, 85, 85)

Scenes ==
    { Image("ok", <<>>, {<<0, 2, 3, 2>>}, {<<0, 1, 1, 1>>}, <<"none">>),
      Image("ok", <<>>, {<<0, 2, 1, 1>>, <<0, 4, 1, 1>>}, {}, <<"none">>),
      Image("ok", <<Wide>>, {<<1, 1, 1, 1>>}, {}, <<"none">>),
      Image("ok", <<Square, Short>>, {<<1, 4, 2, 3>>}, {<<0, 3, 1, 1>>}, <<"none">>),
      Image("ok", <<Exact, Narrow, FarEdge>>, {<<1, 3, 2, 3>>, <<2, 1, 1, 1>>}, {},
            <<"none">>),
      Image("ok", <<Narrow>>, {}, {}, <<"none">>) }

QuarterTurns == {1, 2, 3}

InitRot ==
    /\ \E sc \in Scenes, n \in QuarterTurns :
          /\ rot = [q |-> n]
          /\ thr = [img |-> (1 :> sc) @@ (2 :> Turned(sc, n)),
                    loc |-> [i \in Callers |-> CallStart]]
    /\ srv = <<>> /\ fridge = <<>>
    /\ PipeIdle

SpecRot == InitRot /\ [][NextCalls]_vars

(***************************************************************************)
(* The HTTP server (main.py): one event loop runs the coroutines of the     *)
(* handlers, each from one await to the next; a plain function call inside  *)
(* a coroutine runs on the loop until it returns.  srv.loop is the request  *)
(* whose coroutine is on the loop (0: none).                                *)
(***************************************************************************)
Reqs == 1 .. NumRequests

\* how decode_barcodes_from_bytes ends on the uploaded bytes
DecodeOutcomes ==
    { [end |-> "done", result |-> decode_pyzbar(RawHits[2]), err |-> "none"],
      [end |-> "done", result |-> <<>>, err |-> "none"],
      [end |-> "raised", result |-> <<>>, err |-> "DecodeError"],
      [end |-> "raised", result |-> <<>>, err |-> "TransformError"] }

Requests ==
    [kind : {"scan_barcode"}, out : DecodeOutcomes]
        \cup [kind : {"scan"}, out : {[end |-> "done", result |-> <<>>, err |-> "none"]}]

\* [{"type": r.type, "data": r.data} for r in results]
Serialized(results) ==
    [k \in DOMAIN results |-> [type |-> results[k].type, data |-> results[k].data]]

\* return {"barcodes": [...]}
BarcodeResponse(results) == [status |-> 200, barcodes |-> Serialized(results)]

\* variant of FailureResponse: the failure is answered as an empty list
FailureAsEmptyList(e) == [status |-> 200, barcodes |-> <<>>]

\* raise HTTPException(status_code=500, detail=str(e))
FailureResponse(e) == [status |-> 500, detail |-> e]

InitServer ==
    /\ srv \in [req  : [Reqs -> Requests],
                pc   : {[q \in Reqs |-> "new"]},
                resp : {[q \in Reqs |-> <<>>]},
                runs : {[q \in Reqs |-> 0]},
                loop : {0}]
    /\ thr = <<>> /\ rot = <<>> /\ fridge = <<>>
    /\ PipeIdle

ServerStep(next) ==
    /\ srv' = next
    /\ UNCHANGED <<pipe, thr, rot, fridge>>

\* the handler's coroutine starts and waits at "content = await image.read()"
Accept(q) ==
    /\ srv.loop = 0
    /\ srv.pc[q] = "new"
    /\ ServerStep([srv EXCEPT !.pc[q] = "reading"])

\* scan_barcode is resumed with the bytes and calls
\* decode_barcodes_from_bytes(content) in the coroutine
BeginDecode(q) ==
    /\ srv.loop = 0
    /\ srv.req[q].kind = "scan_barcode"
    /\ srv.pc[q] = "reading"
    /\ ServerStep([srv EXCEPT !.pc[q] = "decoding", !.loop = q,
                              !.runs[q] = srv.runs[q] + 1])

\* the call returns or raises; the handler answers and its coroutine ends
EndDecode(q) ==
    /\ srv.pc[q] = "decoding"
    /\ LET o == srv.req[q].out
       IN  ServerStep([srv EXCEPT
               !.pc[q] = "responded", !.loop = 0,
               !.resp[q] = IF o.end = "raised" THEN FailureResponse(o.err)
                           ELSE BarcodeResponse(o.result)])

\* scan is resumed with the bytes and waits at
\* "await run_in_threadpool(_infer_to_items, ...)"
SubmitInfer(q) ==
    /\ srv.loop = 0
    /\ srv.req[q].kind = "scan"
    /\ srv.pc[q] = "reading"
    /\ ServerStep([srv EXCEPT !.pc[q] = "worker"])

\* _infer_to_items returns on its worker thread
InferDone(q) ==
    /\ srv.pc[q] = "worker"
    /\ ServerStep([srv EXCEPT !.pc[q] = "inferred"])

\* scan is resumed with the items and answers
RespondScan(q) ==
    /\ srv.loop = 0
    /\ srv.pc[q] = "inferred"
    /\ ServerStep([srv EXCEPT !.pc[q] = "responded",
                              !.resp[q] = [status |-> 200, items |-> <<>>]])

NextServer ==
    \E q \in Reqs :
        \/ Accept(q)
        \/ BeginDecode(q)
        \/ EndDecode(q)
        \/ SubmitInfer(q)
        \/ InferDone(q)
        \/ RespondScan(q)

SpecServer == InitServer /\ [][NextServer]_vars

(***************************************************************************)
(* The pantry app (src/app.py; src/frontend/app.py has the same store and   *)
(* handlers).  The store file pantry.json is shared; each browser session   *)
(* has its own st.session_state.pantry, loaded when the session starts.     *)
(* An item is kept with the fields the handlers read or write.  A date is   *)
(* the number of its day, counted from 2025-01-01 = 1; the text            *)
(* "%Y-%m-%d" of a date is <<year, month, day>>.                            *)
(***************************************************************************)
None == <<>>

MonthDays == <<31, 28, 31, 30, 31, 30, 31, 31, 30, 31, 30, 31>>

RECURSIVE DaysBeforeMonth(_)
DaysBeforeMonth(m) == IF m = 1 THEN 0 ELSE DaysBeforeMonth(m - 1) + MonthDays[m - 1]

\* date.strftime("%Y-%m-%d")
strftime(n) ==
    LET doy == ((n - 1) % 365) + 1
        m   == CHOOSE k \in 1..12 :
                   DaysBeforeMonth(k) < doy /\ doy <= DaysBeforeMonth(k) + MonthDays[k]
    IN  <<2025 + ((n - 1) \div 365), m, doy - DaysBeforeMonth(m)>>

\* datetime.strptime(text, "%Y-%m-%d").date()
strptime(text) == (text[1] - 2025) * 365 + DaysBeforeMonth(text[2]) + text[3]

\* the day the app is first opened: 2025-12-24
FirstDay == 365 - 7

\* one browser session, which can be closed and started again
Sessions == {1}

\* create_pantry_item / the manual entry dialog: a new item
create_pantry_item(id) == [id |-> id, status |-> "in_fridge", consumed_at |-> None]

\* variant of Expired: an item consumed seven days ago is removed too
ExpiredAtSeven(days_passed) == days_passed >= 7

\* if days_passed > 7
Expired(days_passed) == days_passed > 7

\* the loop of load_pantry over data from index i on: the items kept and
\* whether one was dropped
RECURSIVE CleanFrom(_, _, _)
CleanFrom(data, i, today) ==
    IF i > Len(data) THEN [cleaned_data |-> <<>>, dirty |-> FALSE]
    ELSE LET rest == CleanFrom(data, i + 1, today)
             item == data[i]
         IN  IF /\ item.status = "consumed"
                /\ item.consumed_at # None
                /\ Expired(today - strptime(item.consumed_at))
             THEN [cleaned_data |-> rest.cleaned_data, dirty |-> TRUE]
             ELSE [cleaned_data |-> <<item>> \o rest.cleaned_data, dirty |-> rest.dirty]

\* list.index(item): the first index holding an equal item
Index(list, item) == CHOOSE k \in DOMAIN list :
    list[k] = item /\ \A j \in 1..(k - 1) : list[j] # item

\* list.pop(k)
Pop(list, k) == SubSeq(list, 1, k - 1) \o SubSeq(list, k + 1, Len(list))

\* the eat handler's two assignments
Eaten(item, today) == [item EXCEPT !.status = "consumed", !.consumed_at = strftime(today)]

\* variant of Restored: the date of consumption is left in place
RestoredStatusOnly(item) == [item EXCEPT !.status = "in_fridge"]

\* the restore handler's two assignments
Restored(item) == [item EXCEPT !.status = "in_fridge", !.consumed_at = None]

\* json.dump(pantry_list, f)
save_pantry(pantry_list) == [exists |-> TRUE, data |-> pantry_list]

InitPantry ==
    /\ fridge = [file     |-> [exists |-> FALSE, data |-> <<>>],
                 sess     |-> [k \in Sessions |-> [open |-> FALSE, pantry |-> <<>>]],
                 today    |-> FirstDay,
                 nextId   |-> 1,
                 lastLoad |-> <<>>,
                 lastAct  |-> "none"]
    /\ thr = <<>> /\ srv = <<>> /\ rot = <<>>
    /\ PipeIdle

PantryStep(next) ==
    /\ fridge' = next
    /\ UNCHANGED <<pipe, thr, srv, rot>>

IsOpen(k) == fridge.sess[k].open

\* a session starts: "if 'pantry' not in st.session_state" runs load_pantry
OpenSession(k) ==
    /\ ~IsOpen(k)
    /\ LET f   == fridge.file
           res == CleanFrom(f.data, 1, fridge.today)
       IN  IF f.exists
           THEN PantryStep([fridge EXCEPT
                    !.file = IF res.dirty THEN save_pantry(res.cleaned_data) ELSE f,
                    !.sess[k] = [open |-> TRUE, pantry |-> res.cleaned_data],
                    !.lastLoad = [data |-> f.data, today |-> fridge.today,
                                  out |-> res.cleaned_data, wrote |-> res.dirty],
                    !.lastAct = "load"])
           ELSE PantryStep([fridge EXCEPT
                    !.sess[k] = [open |-> TRUE, pantry |-> <<>>],
                    !.lastLoad = [data |-> <<>>, today |-> fridge.today,
                                  out |-> <<>>, wrote |-> FALSE],
                    !.lastAct = "load"])

\* the browser tab is closed or reloaded: the session state is gone
CloseSession(k) ==
    /\ IsOpen(k)
    /\ PantryStep([fridge EXCEPT !.sess[k] = [open |-> FALSE, pantry |-> <<>>],
                                 !.lastLoad = <<>>,
                                 !.lastAct = "close"])

\* an add button: append the new item, save, rerun
AddItem(k) ==
    /\ IsOpen(k)
    /\ fridge.nextId <= MaxItems
    /\ LET new == Append(fridge.sess[k].pantry, create_pantry_item(fridge.nextId))
       IN  PantryStep([fridge EXCEPT !.sess[k].pantry = new,
                                     !.file = save_pantry(new),
                                     !.nextId = fridge.nextId + 1,
                                     !.lastLoad = <<>>,
                                     !.lastAct = "add"])

\* the eat button of an item of active_items
Eat(k) ==
    /\ IsOpen(k)
    /\ \E j \in DOMAIN fridge.sess[k].pantry :
         LET pantry         == fridge.sess[k].pantry
             item           == pantry[j]
             original_index == Index(pantry, item)
             new == [pantry EXCEPT ![original_index] = Eaten(@, fridge.today)]
         IN  /\ item.status = "in_fridge"
             /\ PantryStep([fridge EXCEPT !.sess[k].pantry = new,
                                          !.file = save_pantry(new),
                                          !.lastLoad = <<>>,
                                          !.lastAct = "eat"])

\* the restore button of an item of consumed_items
Restore(k) ==
    /\ IsOpen(k)
    /\ \E j \in DOMAIN fridge.sess[k].pantry :
         LET pantry         == fridge.sess[k].pantry
             item           == pantry[j]
             original_index == Index(pantry, item)
             new == [pantry EXCEPT ![original_index] = Restored(@)]
         IN  /\ item.status = "consumed"
             /\ PantryStep([fridge EXCEPT !.sess[k].pantry = new,
                                          !.file = save_pantry(new),
                                          !.lastLoad = <<>>,
                                          !.lastAct = "restore"])

\* the permanent-delete button of an item of consumed_items
Delete(k) ==
    /\ IsOpen(k)
    /\ \E j \in DOMAIN fridge.sess[k].pantry :
         LET pantry         == fridge.sess[k].pantry
             item           == pantry[j]
             original_index == Index(pantry, item)
             new == Pop(pantry, original_index)
         IN  /\ item.status = "consumed"
             /\ PantryStep([fridge EXCEPT !.sess[k].pantry = new,
                                          !.file = save_pantry(new),
                                          !.lastLoad = <<>>,
                                          !.lastAct = "delete"])

\* midnight
Tick ==
    /\ fridge.today < FirstDay + MaxDays
    /\ PantryStep([fridge EXCEPT !.today = fridge.today + 1, !.lastLoad = <<>>,
                                 !.lastAct = "tick"])

NextPantry ==
    \/ \E k \in Sessions :
         \/ OpenSession(k)
         \/ CloseSession(k)
         \/ AddItem(k)
         \/ Eat(k)
         \/ Restore(k)
         \/ Delete(k)
    \/ Tick

SpecPantry == InitPantry /\ [][NextPantry]_vars

(***************************************************************************)
(* Properties.                                                              *)
(***************************************************************************)
\* reader calls on one frame when nothing decodes
SweepSize == 4 * 4 * 3

Frames == 0..MaxRois

RECURSIVE SumCalls(_)
SumCalls(f) == IF f < 0 THEN 0 ELSE calls[f] + SumCalls(f - 1)
TotalCalls == SumCalls(MaxRois)

\* the reader, after filtering, finds something at this position
Decodes(f, ri, si, ci) == decode_pyzbar(pyzbar_decode(f, ri, si, ci)) # <<>>

DecodesOnFrame(f) ==
    \E ri \in 1..4, si \in 1..4, ci \in 1..3 : Decodes(f, ri, si, ci)

Finished == pc \in {"done", "raised"}

\* C1: once a reader call has yielded a symbol with non-empty payload, no
\* further reader call, region crop or locator run happens in that call of
\* decode_barcodes_from_bytes.
C1_ShortCircuit ==
    [][hits > 0 => /\ calls' = calls
                   /\ cropped' = cropped
                   /\ locatorRuns' = locatorRuns]_vars

\* a hit on the first of several regions ended the call
C1_Witness ==
    /\ pc = "done" /\ hits = 1 /\ frame = 1 /\ Len(rois) > 1
    /\ calls[1] < SweepSize

\* C2: the full frame is attempted first; the locator runs only after all 48
\* full-frame variants failed, and every reader call on a region crop comes
\* after all reader calls on the full frame.
C2_FullFrameFirst ==
    [][ /\ locatorRuns' # locatorRuns =>
             calls[0] = SweepSize /\ hits = 0 /\ engineOut = << <<>> >>
        /\ calls'[0] # calls[0] =>
             locatorRuns = 0 /\ \A f \in 1..MaxRois : calls[f] = 0
        /\ (\E f \in 1..MaxRois : calls'[f] # calls[f]) =>
             calls'[0] = SweepSize /\ locatorRuns = 1 ]_vars

C2_Witness == locatorRuns = 1 /\ calls[0] = SweepSize /\ calls[2] > 0

\* the k-th triple of the order rotation (0, 90, 180, 270 clockwise) outer,
\* scale (1.0, 1.5, 2.0, 3.0) middle, contrast (raw, equalized, threshold) inner
Triple(k) ==
    << <<0, 90, 180, 270>>[((k - 1) \div 12) + 1],
       <<10, 15, 20, 30>>[(((k - 1) \div 3) % 4) + 1],
       <<"raw", "clahe", "adaptive">>[((k - 1) % 3) + 1] >>

\* C3: on each frame the reader is called at most 48 times, the k-th call on
\* the k-th triple of the fixed nested order; an engine run returns empty
\* only after 48 calls, and does so when nothing decodes on the frame.
C3_SweepOrder ==
    /\ \A f \in Frames : calls[f] <= SweepSize
    /\ lastRead # <<>> =>
         lastRead = <<lastRead[1]>> \o Triple(calls[lastRead[1]])
    /\ \A k \in 1..Len(engineOut) :
         /\ engineOut[k] = <<>> => calls[k - 1] = SweepSize
         /\ (calls[k - 1] = SweepSize /\ ~DecodesOnFrame(k - 1)) => engineOut[k] = <<>>

\* two frames were swept to the end without a hit
C3_Witness ==
    /\ Len(engineOut) >= 2 /\ engineOut[1] = <<>> /\ engineOut[2] = <<>>
    /\ calls[1] = SweepSize /\ lastRead = <<1, 270, 30, "adaptive">>

\* the reader's raw answer is not empty and all its texts are blank
AllBlank(objs) ==
    /\ objs # <<>>
    /\ \A i \in 1..Len(objs) :
         \A j \in 1..Len(objs[i].data) : objs[i].data[j] \in Whitespace \cup {"xFF"}

\* C4: every returned symbol has non-empty text, and a reader call whose
\* symbols are all blank is no hit: the call does not return on it unless it
\* was the last variant of the last frame, and then it returns empty.
C4_NoBlankPayload ==
    /\ \A i \in 1..Len(result) : result[i].data # <<>>
    /\ \A k \in 1..Len(engineOut) :
         \A i \in 1..Len(engineOut[k]) : engineOut[k][i].data # <<>>
    /\ (pc = "done" /\ lastRead # <<>> /\ AllBlank(pyzbar_decode(frame, r, s, c))) =>
         /\ result = <<>>
         /\ <<r, s, c>> = <<4, 4, 3>>
         /\ frame = Len(rois)

\* a blank answer was passed over and a later answer returned with its blank
\* symbol dropped
C4_Witness ==
    /\ pc = "done" /\ result # <<>>
    /\ <<0, 1, 1, 1>> \in blankAt /\ calls[0] > 1
    /\ Len(result) < Len(pyzbar_decode(frame, r, s, c))

\* the contour a returned region was made from
SrcContour(k) == sorted(cnts)[roiSrc[k]]

\* C5: no contour whose bounding rectangle is narrower than 80 or shorter than
\* 30 gives a returned region, and only returned regions are cropped and read.
C5_RegionFilter ==
    /\ Len(roiSrc) = Len(rois)
    /\ \A k \in 1..Len(rois) : SrcContour(k).w >= 80 /\ SrcContour(k).h >= 30
    /\ \A k \in 1..Len(cropped) :
         /\ k <= Len(rois) /\ cropped[k] = rois[k]
         /\ SrcContour(k).w >= 80 /\ SrcContour(k).h >= 30
    /\ \A f \in 1..MaxRois : calls[f] > 0 => f <= Len(cropped)

\* a region was read although larger contours had been skipped
C5_Witness ==
    /\ Len(cropped) >= 1 /\ calls[1] > 0 /\ roiSrc[1] > 1
    /\ \E i \in 1..Len(cnts) : cnts[i].w < 80 \/ cnts[i].h < 30

Count(x, sq) == Cardinality({i \in 1..Len(sq) : sq[i] = x})

\* C6: the locator returns at most 8 regions, in descending contour area,
\* made from exactly the contours among the 8 largest that are wide and high
\* enough.
C6_TopEightThenFilter ==
    locatorRuns = 1 =>
      LET S == sorted(cnts)
          n == IF Len(S) < 8 THEN Len(S) ELSE 8
      IN  /\ Len(rois) <= 8 /\ Len(roiSrc) = Len(rois)
          /\ Len(S) = Len(cnts)
          /\ \A i \in 1..Len(cnts) : Count(cnts[i], S) = Count(cnts[i], cnts)
          /\ \A i, j \in 1..Len(S) : i < j => S[i].area >= S[j].area
          /\ \A k \in 1..Len(rois) : roiSrc[k] \in 1..n
          /\ \A j, k \in 1..Len(rois) : j < k => roiSrc[j] < roiSrc[k]
          /\ {roiSrc[k] : k \in 1..Len(rois)} =
                {i \in 1..n : S[i].w >= 80 /\ S[i].h >= 30}

\* a wide and high enough contour ranked 9th is left out while fewer than 8
\* regions are returned
C6_Witness ==
    /\ locatorRuns = 1 /\ Len(cnts) >= 9 /\ Len(rois) \in 1..7
    /\ sorted(cnts)[9].w >= 80 /\ sorted(cnts)[9].h >= 30

\* C7: regions are cropped in the order the locator returned them, region
\* i+1 only after all 48 variants of region i failed, and a non-empty result
\* is what the engine returned for the first region that yielded one.
C7_RegionsInOrder ==
    /\ cropped = SubSeq(rois, 1, Len(cropped))
    /\ \A f \in 1..MaxRois :
         calls[f] > 0 =>
           /\ f <= Len(cropped)
           /\ calls[f - 1] = SweepSize
           /\ Len(engineOut) >= f /\ engineOut[f] = <<>>
    /\ \A k \in 1..Len(cropped) : k > 1 => calls[k - 1] = SweepSize
    /\ (pc = "done" /\ frame >= 1 /\ result # <<>>) =>
         /\ Len(engineOut) = frame + 1
         /\ result = engineOut[frame + 1]
         /\ \A k \in 1..frame : engineOut[k] = <<>>
    /\ (pc = "done" /\ locatorRuns = 1 /\ result = <<>>) =>
         /\ Len(cropped) = Len(rois)
         /\ \A k \in 1..Len(engineOut) : engineOut[k] = <<>>

\* the second region gave the result after the first was swept to the end
C7_Witness ==
    /\ pc = "done" /\ frame = 2 /\ result # <<>> /\ calls[1] = SweepSize
    /\ Len(rois) >= 2

\* every variant of the full frame and of every returned region was read
AllTried ==
    /\ calls[0] = SweepSize /\ locatorRuns = 1
    /\ \A f \in 1..Len(rois) : calls[f] = SweepSize

\* C8: for a parseable image the call returns empty, raising nothing,
\* exactly when every variant of the full frame and of every region was tried
\* and none yielded a symbol; when some variant of the full frame or of a
\* returned region decodes, the finished call has a non-empty result.
C8_EmptyIffExhausted ==
    (parse = "ok" /\ Finished) =>
      /\ (pc = "done" /\ result = <<>>) <=> (AllTried /\ hits = 0)
      /\ (\E f \in 0..Len(find_barcode_like_rois(cnts)) : DecodesOnFrame(f)) =>
           pc = "done" /\ result # <<>>

\* C9: when the bytes cannot be parsed the call ends with the decode error:
\* Image.open is called once, nothing is returned, and neither the reader nor
\* the locator is called.
C9_DecodeErrorPropagates ==
    parse # "ok" =>
      /\ pc \in {"start", "raised"}
      /\ opens <= 1
      /\ pc = "raised" => err = "DecodeError" /\ opens = 1
      /\ result = <<>> /\ TotalCalls = 0 /\ locatorRuns = 0
      /\ cropped = <<>> /\ engineOut = <<>>

C9_Witness == parse = "truncated" /\ pc = "raised" /\ err = "DecodeError"

\* C10: a failing rotate, resize, equalization, threshold, crop or reader
\* call never ends the call of decode_barcodes_from_bytes with an exception.
C10_FailuresSkipped == ~(pc = "raised" /\ err = "TransformError")

\* how far the call has come: each step of an unfinished call moves it on
StepRank ==
    LET base == 1 + frame * 70
    IN  CASE pc = "start"  -> 0
          [] pc = "crop"   -> base
          [] pc = "rotate" -> base + 1
          [] pc = "scale"  -> base + 2 + ((r - 1) * 4 + (s - 1)) * 4
          [] pc = "read"   -> base + 2 + ((r - 1) * 4 + (s - 1)) * 4 + c
          [] pc = "locate" -> base + 66
          [] OTHER         -> 1000

\* an unfinished call stands at a step of the code, with its indices in range
AtStep ==
    /\ pc \in {"start", "rotate", "scale", "read", "locate", "crop"}
    /\ pc \in {"rotate", "scale", "read", "crop"} => frame \in 0..Len(rois)
    /\ pc = "crop" => frame >= 1
    /\ pc \in {"scale", "read"} => r \in 1..4 /\ s \in 1..4
    /\ pc = "read" => c \in 1..3

\* C13: every call ends (an unfinished call stands at a step it can take, each
\* step moves it on, and it cannot move on more than 1000 times), after at most 48 reader
\* calls on the full frame and 48 on each of at most 8 regions, 432 in all;
\* 432 are reached only when none of the first 431 reader calls yielded a
\* symbol.
C13_BoundedReads ==
    /\ [][StepRank' > StepRank]_vars
    /\ [](StepRank \in 0..1000)
    /\ [](~Finished => AtStep)
    /\ [](/\ TotalCalls <= 432
          /\ \A f \in Frames : calls[f] <= 48
          /\ Len(rois) <= 8
          /\ TotalCalls = 432 =>
               \/ hits = 0
               \/ /\ hits = 1 /\ pc = "done" /\ frame = 8
                  /\ <<r, s, c>> = <<4, 4, 3>> /\ result # <<>>)

\* the 432nd reader call has been made
C13_Witness == TotalCalls = 432 /\ Finished

\* C13 as stated: 432 reader calls are reached only when no symbol is found
\* anywhere.
C13_MaxOnlyWithoutSymbol ==
    /\ TotalCalls <= 432
    /\ TotalCalls = 432 => hits = 0 /\ result = <<>>

\* C17: the first reader call of a call is on the full frame at rotation 0,
\* scale 1.0, raw; when it yields a symbol the call returns that answer after
\* this one reader call and the locator is not run.
C17_IdentityFirst ==
    /\ TotalCalls >= 1 => calls[0] >= 1
    /\ TotalCalls = 1 => lastRead = <<0, 0, 10, "raw">>
    /\ (TotalCalls >= 1 /\ err = "none" /\ Decodes(0, 1, 1, 1)) =>
         /\ pc = "done" /\ TotalCalls = 1 /\ locatorRuns = 0
         /\ cropped = <<>> /\ result # <<>>

\* the identity variant decoded and ended the call
C17_Witness ==
    /\ pc = "done" /\ TotalCalls = 1 /\ Decodes(0, 1, 1, 1)
    /\ lastRead = <<0, 0, 10, "raw">> /\ cnts # <<>>

\* C19: a non-empty result is the filtered answer of one reader call, the
\* only one that hit and the last one made, as the engine returned it; no
\* symbols of other variants or regions are added.
C19_ResultOfOneRead ==
    (pc = "done" /\ result # <<>>) =>
      /\ hits = 1
      /\ lastRead = <<frame, Rotations[r], Scales[s], Variants[c]>>
      /\ result = decode_pyzbar(pyzbar_decode(frame, r, s, c))
      /\ Len(engineOut) = frame + 1 /\ result = engineOut[frame + 1]
      /\ \A k \in 1..frame : engineOut[k] = <<>>

\* a two-symbol answer on a region was returned whole
C19_Witness ==
    /\ pc = "done" /\ frame >= 1 /\ Len(result) = 2
    /\ calls[0] = SweepSize

\* C20: each returned region is its contour's bounding rectangle padded by 12
\* and clamped to the frame: inside the frame, containing the rectangle, at
\* least 80 wide and 30 high; so is each cropped region.
C20_RegionGeometry ==
    /\ \A k \in 1..Len(rois) :
         LET b  == SrcContour(k)
             x0 == rois[k][1]
             y0 == rois[k][2]
             x1 == rois[k][3]
             y1 == rois[k][4]
         IN  /\ x0 = (IF b.x - 12 < 0 THEN 0 ELSE b.x - 12)
             /\ y0 = (IF b.y - 12 < 0 THEN 0 ELSE b.y - 12)
             /\ x1 = (IF b.x + b.w + 12 > FrameW THEN FrameW ELSE b.x + b.w + 12)
             /\ y1 = (IF b.y + b.h + 12 > FrameH THEN FrameH ELSE b.y + b.h + 12)
             /\ 0 <= x0 /\ x0 < x1 /\ x1 <= FrameW
             /\ 0 <= y0 /\ y0 < y1 /\ y1 <= FrameH
             /\ x0 <= b.x /\ b.x + b.w <= x1
             /\ y0 <= b.y /\ b.y + b.h <= y1
             /\ x1 - x0 >= 80 /\ y1 - y0 >= 30
    /\ \A k \in 1..Len(cropped) :
         /\ cropped[k][1] < cropped[k][3] /\ cropped[k][2] < cropped[k][4]

\* regions clamped at the frame's origin and at its far edges were returned
C20_Witness ==
    /\ locatorRuns = 1
    /\ \E k \in 1..Len(rois) : rois[k][1] = 0 /\ rois[k][2] = 0
    /\ \E k \in 1..Len(rois) : rois[k][3] = FrameW /\ rois[k][4] = FrameH
    /\ \E k \in 1..Len(rois) : rois[k][1] > 0 /\ rois[k][3] < FrameW

\* the names of the call's inputs: the frame and the grays made of it
InputBufs == {ref.bgr, ref.gray_full, ref.gray}

\* C18: the engine leaves its input as it was: the frame and the gray images
\* made of it hold the same pixels in every state, a region's gray is made of
\* the frame's original pixels, and every rotated, resized, equalized or
\* thresholded image is a buffer of its own.
C18_InputsUntouched ==
    ref.bgr # 0 =>
      /\ heap[ref.bgr] = <<"bgr", <<"frame">>>>
      /\ heap[ref.gray_full] = <<"gray", <<"bgr", <<"frame">>>>>>
      /\ frame = 0 => ref.gray = ref.gray_full
      /\ (frame >= 1 /\ Len(cropped) = frame) =>
           heap[ref.gray] = <<"gray", <<"crop", rois[frame], <<"bgr", <<"frame">>>>>>>>
      /\ Cardinality(Range(ref.imgs)) = Len(ref.imgs)
      /\ \A i \in 2..Len(ref.imgs) : ref.imgs[i] \notin InputBufs
      /\ ref.variants # <<>> =>
           /\ ref.variants[1] = ref.gg
           /\ ref.variants[2] \notin InputBufs \cup Range(ref.imgs) \cup {ref.gg}
           /\ ref.variants[3] \notin InputBufs \cup Range(ref.imgs) \cup {ref.gg}
           /\ ref.variants[2] # ref.variants[3]
           /\ (pc = "read" /\ s >= 2) => ref.gg \notin InputBufs \cup Range(ref.imgs)
           /\ (pc = "read" /\ s = 1) => ref.gg = ref.imgs[r]
           /\ (pc = "read" /\ ref.gg \in InputBufs) => r = 1 /\ s = 1

\* the thresholded variant of a second region's own gray is being read
C18_Witness ==
    /\ pc = "read" /\ frame = 2 /\ r = 1 /\ s = 1 /\ c = 3
    /\ ref.gg = ref.gray /\ ref.gray # ref.gray_full
    /\ calls[0] = SweepSize /\ calls[1] = SweepSize


(***************************************************************************)
(* Two calls at once.                                                       *)
(***************************************************************************)
Ended(i) == thr.loc[i].pc \in {"done", "raised"}

ScaleOrd(f, ri, si) == f * 100 + 2 + ((ri - 1) * 4 + (si - 1)) * 4
ReadOrd(f, ri, si, ci) == ScaleOrd(f, ri, si) + ci
Never == (MaxRois + 1) * 100

Regions(im) == Len(find_barcode_like_rois(im.cnts))

Visible(sym) == \E k \in DOMAIN sym.data : sym.data[k] \notin Whitespace \cup {"xFF"}

\* the positions of image im at which the reader sees a symbol with text
Readable(im) ==
    { q \in im.hitAt \cup im.blankAt :
        /\ q[1] <= Regions(im)
        /\ \E k \in DOMAIN pyzbar_answer(im.hitAt, im.blankAt, q[1], q[2], q[3], q[4]) :
              Visible(pyzbar_answer(im.hitAt, im.blankAt, q[1], q[2], q[3], q[4])[k]) }

FirstReadable(im) ==
    CHOOSE q \in Readable(im) :
        \A q2 \in Readable(im) :
            ReadOrd(q[1], q[2], q[3], q[4]) <= ReadOrd(q2[1], q2[2], q2[3], q2[4])

FaultOrd(im) ==
    LET fa == im.faultAt
    IN  IF fa[1] = "none" \/ fa[2] > Regions(im) \/ (fa[1] = "crop" /\ fa[2] = 0)
        THEN Never
        ELSE CASE fa[1] = "crop"   -> fa[2] * 100
               [] fa[1] = "rotate" -> fa[2] * 100 + 1
               [] fa[1] = "scale"  -> ScaleOrd(fa[2], fa[3], fa[4])
               [] fa[1] = "read"   -> ReadOrd(fa[2], fa[3], fa[4], fa[5])

\* what a call on image im alone comes to
Alone_Outcome(im) ==
    LET hit == IF Readable(im) = {} THEN Never
               ELSE LET q == FirstReadable(im) IN ReadOrd(q[1], q[2], q[3], q[4])
    IN  IF im.parse # "ok" THEN <<"raised", "DecodeError", <<>>>>
        ELSE IF FaultOrd(im) < Never /\ FaultOrd(im) <= hit
             THEN <<"raised", "TransformError", <<>>>>
        ELSE IF hit < Never
             THEN LET q == FirstReadable(im)
                  IN  <<"done", "none",
                        decode_pyzbar(pyzbar_answer(im.hitAt, im.blankAt,
                                                    q[1], q[2], q[3], q[4]))>>
        ELSE <<"done", "none", <<>>>>

\* C15: a call that has ended has the outcome its own image determines, with
\* whatever image and at whatever pace the other call runs, and a step of one
\* call changes the locals of no other call.
C15_Stateless ==
    /\ [](\A i \in Callers :
            Ended(i) =>
              <<thr.loc[i].pc, thr.loc[i].err, thr.loc[i].result>>
                  = Alone_Outcome(thr.img[i]))
    /\ [][\A i, j \in Callers :
            (i # j /\ thr.loc[i] # thr'.loc[i]) => thr'.loc[j] = thr.loc[j]]_vars

\* one call has ended with symbols from a region while the other, on another
\* image with regions of its own, is in the middle of its regions
C15_Witness ==
    /\ thr # <<>>
    /\ thr.img[1] # thr.img[2]
    /\ thr.loc[2].pc = "done" /\ thr.loc[2].result # <<>> /\ thr.loc[2].frame >= 1
    /\ thr.loc[1].pc = "sweep" /\ thr.loc[1].frame >= 1
    /\ thr.loc[1].rois # thr.loc[2].rois


(***************************************************************************)
(* The HTTP handlers.                                                       *)
(***************************************************************************)
\* a request whose coroutine the loop could run now, were the loop free
Waiting(q) == srv.pc[q] \in {"new", "reading", "inferred"}

\* C11: a decode under way does not run on the event loop: while a
\* scan_barcode request is decoding, the loop is free to run the coroutine of
\* any other request that waits for it.
C11_DecodeOffLoop ==
    \A q, q2 \in Reqs :
        (srv.pc[q] = "decoding" /\ q2 # q /\ Waiting(q2)) => srv.loop = 0

\* C12: a scan_barcode request whose decode raised is answered with status
\* 500 and the text of the error; a 200 answer carries the symbols of a
\* decode that returned; no request runs the pipeline more than once.
C12_FailureIs500 ==
    \A q \in Reqs :
        /\ srv.runs[q] <= 1
        /\ (srv.req[q].kind = "scan_barcode" /\ srv.pc[q] = "responded") =>
              /\ srv.runs[q] = 1
              /\ srv.req[q].out.end = "raised" =>
                    srv.resp[q] = [status |-> 500, detail |-> srv.req[q].out.err]
              /\ srv.req[q].out.end = "done" =>
                    /\ srv.resp[q].status = 200
                    /\ Len(srv.resp[q].barcodes) = Len(srv.req[q].out.result)
                    /\ \A k \in DOMAIN srv.resp[q].barcodes :
                          /\ srv.resp[q].barcodes[k].type = srv.req[q].out.result[k].type
                          /\ srv.resp[q].barcodes[k].data = srv.req[q].out.result[k].data

\* a decode that raised and one that returned nothing, both answered
C12_Witness ==
    /\ srv # <<>>
    /\ \E q1, q2 \in Reqs :
        /\ srv.pc[q1] = "responded" /\ srv.req[q1].out.end = "raised"
        /\ srv.req[q1].kind = "scan_barcode" /\ srv.resp[q1].status = 500
        /\ srv.pc[q2] = "responded" /\ srv.req[q2].out.end = "done"
        /\ srv.req[q2].kind = "scan_barcode" /\ srv.req[q2].out.result = <<>>


(***************************************************************************)
(* Turned images.                                                           *)
(***************************************************************************)
Payloads(res) == [k \in DOMAIN res |-> res[k].data]

\* C16: when the call on a scene's image has returned symbols, the call on
\* the image turned by 90, 180 or 270 degrees, once ended, has returned
\* symbols with the same payload texts.
C16_RotationInvariant ==
    (Ended(1) /\ Ended(2) /\ thr.loc[1].pc = "done" /\ thr.loc[1].result # <<>>) =>
        /\ thr.loc[2].pc = "done"
        /\ thr.loc[2].result # <<>>
        /\ Payloads(thr.loc[2].result) = Payloads(thr.loc[1].result)


(***************************************************************************)
(* The fields of a returned symbol.                                         *)
(***************************************************************************)
\* the symbols of the reader's answer at the position last read that have a
\* byte of visible text
KeptRaw == SelectSeq(pyzbar_decode(frame, r, s, c), Visible)

\* C21: the rect of each returned symbol is the rect the reader reported for
\* the variant image it read, as reported: not moved by the region's origin,
\* not divided by the scale, not turned back.
C21_RectPassedThrough ==
    (pc = "done" /\ result # <<>>) =>
        /\ Len(result) = Len(KeptRaw)
        /\ \A i \in DOMAIN result :
             /\ result[i].rect = KeptRaw[i].rect
             /\ result[i].type = KeptRaw[i].type

\* a hit on a turned, upscaled variant of a region away from the frame's origin
C21_Witness ==
    /\ pc = "done" /\ result # <<>>
    /\ frame >= 1 /\ roi[1] > 0 /\ roi[2] > 0
    /\ Rotations[r] # 0 /\ Scales[s] > 10
    /\ result[1].rect = KeptRaw[1].rect

\* text is txt without whitespace at its ends
TrimOf(text, txt) ==
    /\ text # <<>>
    /\ Head(text) \notin Whitespace
    /\ text[Len(text)] \notin Whitespace
    /\ \E a \in 1..Len(txt), b \in 1..Len(txt) :
         /\ text = SubSeq(txt, a, b)
         /\ \A k \in 1..Len(txt) : (k < a \/ k > b) => txt[k] \in Whitespace

\* C22: the returned symbols are the reader's symbols whose text is more than
\* whitespace, each with its text trimmed: no returned text begins or ends
\* with whitespace, and a symbol of whitespace only is not returned.
C22_TrimmedBeforeTest ==
    (pc = "done" /\ result # <<>>) =>
        /\ Len(result) = Len(KeptRaw)
        /\ \A i \in DOMAIN result :
             TrimOf(result[i].data, utf8_ignore(KeptRaw[i].data))

\* an answer with a whitespace-only symbol and a symbol with whitespace at
\* both ends
C22_Witness ==
    /\ pc = "done" /\ result # <<>>
    /\ Len(result) < Len(pyzbar_decode(frame, r, s, c))
    /\ \E i \in DOMAIN result :
         Len(result[i].data) + 2 <= Len(utf8_ignore(KeptRaw[i].data))


(***************************************************************************)
(* The pantry app.                                                          *)
(***************************************************************************)
SessionPantry == fridge.sess[1].pantry

WellFormed(item) ==
    /\ item.status \in {"in_fridge", "consumed"}
    /\ item.consumed_at # None <=> item.status = "consumed"

\* the items of list with this id
WithId(list, id) == SelectSeq(list, LAMBDA it : it.id = id)

\* C23: every item of the session's list and of the store file is in_fridge
\* with no consumed_at or consumed with one; within a session an item becomes
\* consumed only by eat, from in_fridge, and gets today's date; it becomes
\* in_fridge again only by restore, which clears the date; it leaves the list
\* only by permanent delete, and only when consumed.
C23_Lifecycle ==
    /\ [](/\ \A j \in DOMAIN SessionPantry : WellFormed(SessionPantry[j])
          /\ \A j \in DOMAIN fridge.file.data : WellFormed(fridge.file.data[j]))
    /\ [][(fridge.sess[1].open /\ fridge'.sess[1].open) =>
            \A id \in 1..MaxItems :
              LET old == WithId(fridge.sess[1].pantry, id)
                  new == WithId(fridge'.sess[1].pantry, id)
              IN  /\ (old # <<>> /\ new = <<>>) =>
                        /\ fridge'.lastAct = "delete"
                        /\ old[1].status = "consumed"
                  /\ (old # <<>> /\ new # <<>> /\ old # new) =>
                        \/ /\ fridge'.lastAct = "eat"
                           /\ old[1].status = "in_fridge"
                           /\ new[1].status = "consumed"
                           /\ new[1].consumed_at = strftime(fridge.today)
                        \/ /\ fridge'.lastAct = "restore"
                           /\ old[1].status = "consumed"
                           /\ new[1].status = "in_fridge"
                           /\ new[1].consumed_at = None]_vars

\* after adds, eats and a permanent delete, a restore: one item back in the
\* fridge beside a consumed one
C23_Witness ==
    /\ fridge # <<>>
    /\ fridge.lastAct = "restore"
    /\ fridge.nextId > MaxItems
    /\ Len(SessionPantry) < MaxItems
    /\ \E i, j \in DOMAIN SessionPantry :
         /\ SessionPantry[i].status = "consumed"
         /\ SessionPantry[j].status = "in_fridge"
    /\ fridge.file.data = SessionPantry

\* the date of text a is earlier than the date of text b
Earlier(a, b) ==
    \/ a[1] < b[1]
    \/ a[1] = b[1] /\ a[2] < b[2]
    \/ a[1] = b[1] /\ a[2] = b[2] /\ a[3] < b[3]

\* consumed, with a date more than seven days before today
Stale(item, today) ==
    /\ item.status = "consumed"
    /\ item.consumed_at # None
    /\ Earlier(item.consumed_at, strftime(today - 7))

\* C24: load_pantry returns the file's items without those consumed more
\* than seven days before today, the others in their order; the file is
\* written exactly when an item was left out, and then holds what was
\* returned.
C24_AutoClean ==
    (fridge.lastLoad # <<>>) =>
        LET ld   == fridge.lastLoad
            keep == SelectSeq(ld.data, LAMBDA it : ~Stale(it, ld.today))
        IN  /\ ld.out = keep
            /\ SessionPantry = keep
            /\ ld.wrote <=> (\E j \in DOMAIN ld.data : Stale(ld.data[j], ld.today))
            /\ ld.wrote <=> Len(ld.out) < Len(ld.data)
            /\ fridge.file.exists => fridge.file.data = keep

\* a load that dropped the middle one of three items and kept an item in the
\* fridge and an item consumed exactly seven days before
C24_Witness ==
    /\ fridge # <<>>
    /\ fridge.lastLoad # <<>>
    /\ fridge.lastLoad.wrote
    /\ Len(fridge.lastLoad.data) = MaxItems
    /\ Len(fridge.lastLoad.out) = MaxItems - 1
    /\ fridge.lastLoad.out[1] = fridge.lastLoad.data[1]
    /\ fridge.lastLoad.out[1].status = "in_fridge"
    /\ fridge.lastLoad.out[2] = fridge.lastLoad.data[3]
    /\ fridge.lastLoad.out[2].status = "consumed"
    /\ fridge.lastLoad.out[2].consumed_at = strftime(fridge.today - 7)

====
